---- MODULE Spec2Model ----
(***************************************************************************)
(* A model of the ATLAS entity/validation engine:                          *)
(*   - the operation envelope  (decorators/atlas_operation.py)             *)
(*   - the validation status tables  (enums/validation.py)                 *)
(*   - the label tables  (enums/node_label.py)                             *)
(*   - the node and its cached derived properties  (core/node.py,          *)
(*     descriptors/cached_property.py)                                     *)
(*   - the client operations on nodes  (core/client.py)                    *)
(*   - behaviour composition  (core/node.py, create / register_behavior)   *)
(*   - the taxonomy analysis  (core/taxonomy.py)                           *)
(*   - the enum functions from_string and inverse_relationship             *)
(*     (enums/node_label.py, core/relationship.py)                         *)
(*   - the pattern wrapper  (decorators/fabric_pattern.py)                 *)
(***************************************************************************)
EXTENDS Integers, Sequences, FiniteSets, TLC

\* ------------------------------------------------------------------------
\* Bounds of the model
\* ------------------------------------------------------------------------
MaxRetry == 2
MaxArg == 2
MaxInst == 1
MaxLabels == 1
MaxClock == 1
MaxRels == 2
MaxFragments == 2

None == "None"

VARIABLES
    \* ---- operation envelope (atlas_operation.wrapper) ----
    cfg,            \* the decorator's arguments, fixed when the function is decorated
    hasValidate,    \* hasattr(instance, "validate"), per instance
    epc,            \* position of the wrapper: idle, loop, returned, raised
    args,           \* positional arguments of the call in progress
    attempt,        \* wrapper local
    last_error,     \* wrapper local
    outcomes,       \* what func did at each invocation made by this call
    sleeps,         \* time.sleep(retry_delay) calls made by this call
    validateCalls,  \* instance.validate() calls made by this call, with results
    result,         \* value handed to the caller when epc = "returned"
    error,          \* exception handed to the caller when epc = "raised"
    fromCache,      \* the call returned at line 61
    hasCache,       \* hasattr(instance, "_operation_cache"), per instance
    opCache,        \* instance._operation_cache, per instance
    computed,       \* history: with caching on, the value func returned for a method call's arguments
    \* ---- nodes and client ----
    adapter,        \* client.graph_adapter is not None
    nodes,          \* the ATLASNode objects that exist, by id
    stored,         \* ids the graph adapter holds
    clock,          \* datetime.datetime.now()
    last,           \* the last node/client call and what it handed back
    \* ---- behaviour composition (ATLASNode.create / register_behavior) ----
    registry,       \* ATLASNode._behaviors: behaviour name -> function
    entities,       \* the nodes built by ATLASNode.create, with what was attached to them
    creation,       \* history: the arguments and the registry of each entity's create call
    blast,          \* the last behaviour call and what it handed back
    \* ---- taxonomy analysis (TaxonomyExtractor.analyze_taxonomy) ----
    tnodes,         \* nodes: the ids of the nodes found for the domain, in list order
    trels,          \* unique_relationships, in dict order
    tpc,            \* position of analyze_taxonomy
    connectivity,   \* value of _calculate_connectivity, as a ratio
    adjacency,      \* _calculate_hierarchical_depth local
    visited,        \* _calculate_hierarchical_depth local
    max_depth,      \* _calculate_hierarchical_depth local
    stack,          \* the active dfs calls: node_id, depth, next child to look at
    ti,             \* position of the `for node in nodes` loop that starts the dfs calls
    \* ---- the enum functions (from_string, inverse_relationship) ----
    finput,         \* the argument: a text, or a relationship type
    fop,            \* the function applied last
    fout,           \* what it returned, as a list
    \* ---- the pattern wrapper (fabric_pattern.wrapper) ----
    parameters,     \* the decorator's parameters argument, as a list (empty: None)
    fabtarget,      \* what the call's first argument is, and what its registry holds
    fabpc,          \* position of the wrapper
    fabarg,         \* the argument passed on to func
    fabcalls,       \* what func did at each execution made by this call
    fabprocess,     \* what pattern.process did in this call, as a list
    fabout          \* the value or exception handed to the caller, as a list

envVars == <<cfg, hasValidate, epc, args, attempt, last_error, outcomes, sleeps,
             validateCalls, result, error, fromCache, hasCache, opCache, computed>>
nodeVars == <<adapter, nodes, stored, clock, last>>
behVars == <<registry, entities, creation, blast>>
taxVars == <<tnodes, trels, tpc, connectivity, adjacency, visited, max_depth, stack, ti>>
fnVars == <<finput, fop, fout>>
fabVars == <<parameters, fabtarget, fabpc, fabarg, fabcalls, fabprocess, fabout>>
extVars == <<behVars, taxVars, fnVars, fabVars>>
vars == <<cfg, hasValidate, epc, args, attempt, last_error, outcomes, sleeps,
          validateCalls, result, error, fromCache, hasCache, opCache, computed,
          adapter, nodes, stored, clock, last,
          registry, entities, creation, blast,
          tnodes, trels, tpc, connectivity, adjacency, visited, max_depth, stack, ti,
          finput, fop, fout,
          parameters, fabtarget, fabpc, fabarg, fabcalls, fabprocess, fabout>>

\* ------------------------------------------------------------------------
\* Small helpers on finite maps
\* ------------------------------------------------------------------------
EmptyMap == [k \in {} |-> None]

MapPut(m, k, v) == [x \in (DOMAIN m) \cup {k} |-> IF x = k THEN v ELSE m[x]]

\* dict.update: keys of p take p's values, all other keys of m are kept
MapMerge(m, p) == [x \in (DOMAIN m) \cup (DOMAIN p) |-> IF x \in DOMAIN p THEN p[x] ELSE m[x]]

\* ========================================================================
\* OPERATION ENVELOPE  (src/atlas/decorators/atlas_operation.py)
\* ========================================================================
Instances == 1..MaxInst
ArgVals == 1..MaxArg
Values == {"ok", "other"}
Errors == {"ErrA", "ErrB"}
FuncName == "func"

\* the calls the model makes: a bare call func() or a method call func(self, a)
ArgTuples == {<<>>} \cup {<<i, a>> : i \in Instances, a \in ArgVals}

\* line 48: instance = args[0] if args else None
HasInstance(a) == Len(a) > 0

Instance(a) == a[1]

\* repr() of one positional argument, as the token the f-string prints
Repr(x) == <<"repr", x>>

\* a key that leaves the arguments out
CacheKeyWithoutArgs(a) == <<FuncName, "_", "{}">>

\* lines 58 and 89: cache_key = f"{func.__name__}_{args}_{kwargs}".  The string
\* is modelled as its sequence of tokens; no keyword arguments are passed.
CacheKey(a) == <<FuncName, "_", [i \in 1..Len(a) |-> Repr(a[i])], "_", "{}">>

\* a cache consulted only by operations that have no validation gate
CacheHitUnlessGated(a) ==
    /\ ~cfg.requires_validation
    /\ cfg.cache_result
    /\ HasInstance(a)
    /\ hasCache[Instance(a)]
    /\ CacheKey(a) \in DOMAIN opCache[Instance(a)]

\* lines 57-59: cache_result and hasattr(instance, "_operation_cache") and key in cache
CacheHit(a) ==
    /\ cfg.cache_result
    /\ HasInstance(a)
    /\ hasCache[Instance(a)]
    /\ CacheKey(a) \in DOMAIN opCache[Instance(a)]

\* lines 64-65: requires_validation and instance is not None and hasattr(instance, "validate")
GateApplies(requires_validation, has_instance, has_validate) ==
    /\ requires_validation
    /\ has_instance
    /\ has_validate

\* a loop that stops one attempt early
LoopConditionStrict(att, retry_attempts) == att < retry_attempts

\* line 75: while attempt <= retry_attempts
LoopCondition(att, retry_attempts) == att <= retry_attempts

\* line 98: if attempt <= retry_attempts  (after attempt += 1)
RetryCondition(att, retry_attempts) == att <= retry_attempts

\* lines 86-90: store the result when cache_result and instance is not None
StoreApplies(a) == cfg.cache_result /\ HasInstance(a)

\* a gate whose verdict is ignored
GateOutcomeIgnored(validation_result) == "loop"

\* lines 67-69: a false validation result raises ValueError before the loop
GateOutcome(validation_result) == IF ~validation_result THEN "raised" ELSE "loop"

\* re-raising the first exception instead of the last
PropagatedFirst(outs, e) == outs[1].val

\* line 105: a bare raise inside the handler re-raises e, the exception just caught
PropagatedError(outs, e) == e

EnvInit ==
    /\ cfg \in [requires_validation : BOOLEAN,
                retry_attempts : (-1)..MaxRetry,
                cache_result : BOOLEAN]
    /\ hasValidate \in [Instances -> BOOLEAN]
    /\ epc = "idle"
    /\ args = <<>>
    /\ attempt = 0
    /\ last_error = None
    /\ outcomes = <<>>
    /\ sleeps = 0
    /\ validateCalls = <<>>
    /\ result = None
    /\ error = None
    /\ fromCache = FALSE
    /\ hasCache = [i \in Instances |-> FALSE]
    /\ opCache = [i \in Instances |-> EmptyMap]
    /\ computed = EmptyMap

\* A state of the envelope in which no call was ever made (used while the
\* node operations are explored on their own).
EnvParked ==
    /\ cfg = [requires_validation |-> FALSE, retry_attempts |-> 0, cache_result |-> FALSE]
    /\ hasValidate = [i \in Instances |-> FALSE]
    /\ epc = "idle"
    /\ args = <<>>
    /\ attempt = 0
    /\ last_error = None
    /\ outcomes = <<>>
    /\ sleeps = 0
    /\ validateCalls = <<>>
    /\ result = None
    /\ error = None
    /\ fromCache = FALSE
    /\ hasCache = [i \in Instances |-> FALSE]
    /\ opCache = [i \in Instances |-> EmptyMap]
    /\ computed = EmptyMap

\* wrapper, lines 46-73: the call enters, is answered from the cache, is
\* refused by the validation gate, or reaches the retry loop.
Call(a) ==
    /\ epc = "idle"
    /\ args' = a
    /\ outcomes' = <<>>
    /\ sleeps' = 0
    /\ attempt' = 0
    /\ last_error' = None
    /\ IF CacheHit(a)
       THEN /\ epc' = "returned"
            /\ result' = opCache[Instance(a)][CacheKey(a)]
            /\ fromCache' = TRUE
            /\ error' = None
            /\ validateCalls' = <<>>
       ELSE /\ fromCache' = FALSE
            /\ result' = None
            /\ IF GateApplies(cfg.requires_validation, HasInstance(a),
                              HasInstance(a) /\ hasValidate[Instance(a)])
               THEN \E validation_result \in BOOLEAN :
                       /\ validateCalls' = <<validation_result>>
                       /\ epc' = GateOutcome(validation_result)
                       /\ error' = IF ~validation_result THEN "ValueError" ELSE None
               ELSE /\ validateCalls' = <<>>
                    /\ epc' = "loop"
                    /\ error' = None
    /\ UNCHANGED <<cfg, hasValidate, hasCache, opCache, computed>>
    /\ UNCHANGED <<nodeVars, extVars>>

\* wrapper, lines 75-92: one pass of the loop in which func returns
AttemptReturns(v) ==
    /\ epc = "loop"
    /\ LoopCondition(attempt, cfg.retry_attempts)
    /\ outcomes' = Append(outcomes, [kind |-> "return", val |-> v])
    /\ IF StoreApplies(args)
       THEN /\ hasCache' = [hasCache EXCEPT ![Instance(args)] = TRUE]
            /\ opCache' = [opCache EXCEPT ![Instance(args)] = MapPut(@, CacheKey(args), v)]
       ELSE UNCHANGED <<hasCache, opCache>>
    /\ result' = v
    /\ epc' = "returned"
    /\ computed' = IF cfg.cache_result /\ Len(args) > 0
                    THEN MapPut(computed, args, v)
                    ELSE computed
    /\ UNCHANGED <<cfg, hasValidate, args, attempt, last_error, sleeps, validateCalls,
                   error, fromCache>>
    /\ UNCHANGED <<nodeVars, extVars>>

\* a handler that also remembers the failure under the call's key
AttemptRaisesAndStores(e) ==
    /\ epc = "loop"
    /\ LoopCondition(attempt, cfg.retry_attempts)
    /\ outcomes' = Append(outcomes, [kind |-> "raise", val |-> e])
    /\ last_error' = e
    /\ attempt' = attempt + 1
    /\ IF RetryCondition(attempt + 1, cfg.retry_attempts)
       THEN /\ sleeps' = sleeps + 1
            /\ UNCHANGED <<epc, error>>
       ELSE /\ error' = PropagatedError(Append(outcomes, [kind |-> "raise", val |-> e]), e)
            /\ epc' = "raised"
            /\ UNCHANGED sleeps
    /\ IF StoreApplies(args)
       THEN /\ hasCache' = [hasCache EXCEPT ![Instance(args)] = TRUE]
            /\ opCache' = [opCache EXCEPT ![Instance(args)] = MapPut(@, CacheKey(args), e)]
       ELSE UNCHANGED <<hasCache, opCache>>
    /\ UNCHANGED <<cfg, hasValidate, args, validateCalls, result, fromCache, computed>>
    /\ UNCHANGED <<nodeVars, extVars>>

\* wrapper, lines 75-78 and 94-105: one pass of the loop in which func raises e
AttemptRaises(e) ==
    /\ epc = "loop"
    /\ LoopCondition(attempt, cfg.retry_attempts)
    /\ outcomes' = Append(outcomes, [kind |-> "raise", val |-> e])
    /\ last_error' = e
    /\ attempt' = attempt + 1
    /\ IF RetryCondition(attempt + 1, cfg.retry_attempts)
       THEN /\ sleeps' = sleeps + 1
            /\ UNCHANGED <<epc, error>>
       ELSE /\ error' = PropagatedError(Append(outcomes, [kind |-> "raise", val |-> e]), e)
            /\ epc' = "raised"
            /\ UNCHANGED sleeps
    /\ UNCHANGED <<cfg, hasValidate, args, validateCalls, result, fromCache, hasCache,
                   opCache, computed>>
    /\ UNCHANGED <<nodeVars, extVars>>

\* wrapper, lines 107-109: the loop condition is false on entry
LoopExit ==
    /\ epc = "loop"
    /\ ~LoopCondition(attempt, cfg.retry_attempts)
    /\ error' = IF last_error = None THEN "AssertionError" ELSE last_error
    /\ epc' = "raised"
    /\ UNCHANGED <<cfg, hasValidate, args, attempt, last_error, outcomes, sleeps,
                   validateCalls, result, fromCache, hasCache, opCache, computed>>
    /\ UNCHANGED <<nodeVars, extVars>>

\* the caller takes the value or the exception; the wrapper's locals are gone
Done ==
    /\ epc \in {"returned", "raised"}
    /\ epc' = "idle"
    /\ args' = <<>>
    /\ attempt' = 0
    /\ last_error' = None
    /\ outcomes' = <<>>
    /\ sleeps' = 0
    /\ validateCalls' = <<>>
    /\ result' = None
    /\ error' = None
    /\ fromCache' = FALSE
    /\ UNCHANGED <<cfg, hasValidate, hasCache, opCache, computed>>
    /\ UNCHANGED <<nodeVars, extVars>>

EnvNext ==
    \/ \E a \in ArgTuples : Call(a)
    \/ \E v \in Values : AttemptReturns(v)
    \/ \E e \in Errors : AttemptRaises(e)
    \/ LoopExit
    \/ Done

\* ========================================================================
\* VALIDATION STATUS TABLES  (src/atlas/enums/validation.py)
\* ========================================================================
UNVALIDATED == "unvalidated"
VALIDATED == "validated"
NEEDS_REVIEW == "needs_review"
REJECTED == "rejected"
PENDING == "pending"
AUTOMATED_VALIDATED == "automated_validated"
EXPERT_VALIDATED == "expert_validated"
COMMUNITY_VALIDATED == "community_validated"

ValidationStatusType ==
    {UNVALIDATED, VALIDATED, NEEDS_REVIEW, REJECTED, PENDING,
     AUTOMATED_VALIDATED, EXPERT_VALIDATED, COMMUNITY_VALIDATED}

\* ValidationStatusType.is_valid
StatusIsValid(s) ==
    s \in {VALIDATED, AUTOMATED_VALIDATED, EXPERT_VALIDATED, COMMUNITY_VALIDATED}

\* a table in which a rejected entity stays rejected
allowed_transitions_rejected_terminal(s) ==
    CASE s = UNVALIDATED -> {PENDING, AUTOMATED_VALIDATED, NEEDS_REVIEW, REJECTED}
      [] s = VALIDATED -> {NEEDS_REVIEW, REJECTED}
      [] s = NEEDS_REVIEW -> {VALIDATED, EXPERT_VALIDATED, COMMUNITY_VALIDATED, REJECTED}
      [] s = PENDING -> {VALIDATED, NEEDS_REVIEW, REJECTED, AUTOMATED_VALIDATED}
      [] s = AUTOMATED_VALIDATED -> {EXPERT_VALIDATED, COMMUNITY_VALIDATED, NEEDS_REVIEW, REJECTED}
      [] s = EXPERT_VALIDATED -> {NEEDS_REVIEW, REJECTED}
      [] s = COMMUNITY_VALIDATED -> {EXPERT_VALIDATED, NEEDS_REVIEW, REJECTED}
      [] OTHER -> {}

\* ValidationStatusType.allowed_transitions
allowed_transitions(s) ==
    CASE s = UNVALIDATED -> {PENDING, AUTOMATED_VALIDATED, NEEDS_REVIEW, REJECTED}
      [] s = VALIDATED -> {NEEDS_REVIEW, REJECTED}
      [] s = NEEDS_REVIEW -> {VALIDATED, EXPERT_VALIDATED, COMMUNITY_VALIDATED, REJECTED}
      [] s = REJECTED -> {NEEDS_REVIEW, PENDING}
      [] s = PENDING -> {VALIDATED, NEEDS_REVIEW, REJECTED, AUTOMATED_VALIDATED}
      [] s = AUTOMATED_VALIDATED -> {EXPERT_VALIDATED, COMMUNITY_VALIDATED, NEEDS_REVIEW, REJECTED}
      [] s = EXPERT_VALIDATED -> {NEEDS_REVIEW, REJECTED}
      [] s = COMMUNITY_VALIDATED -> {EXPERT_VALIDATED, NEEDS_REVIEW, REJECTED}
      [] OTHER -> {}

\* ValidationStatusType.required_validation_fields
required_validation_fields(s) ==
    {"validated_at", "validation_source"} \cup
    (CASE s = UNVALIDATED -> {}
       [] s = VALIDATED -> {"validator_id"}
       [] s = NEEDS_REVIEW -> {"review_reason"}
       [] s = REJECTED -> {"rejection_reason", "rejected_by"}
       [] s = PENDING -> {"pending_reason"}
       [] s = AUTOMATED_VALIDATED -> {"validation_method", "confidence_score"}
       [] s = EXPERT_VALIDATED -> {"expert_id", "expert_credentials"}
       [] s = COMMUNITY_VALIDATED -> {"community_votes", "validation_threshold"}
       [] OTHER -> {})

\* ========================================================================
\* LABEL TABLES  (src/atlas/enums/node_label.py)
\* ========================================================================
NodeLabelType ==
    {"EnergyTerm", "RenewableSource", "FossilFuel", "TechnicalConcept",
     "RegulatoryFramework", "TaxonomyNode", "Concept", "Category", "RelationshipNode"}

base_properties == {"name", "created_at", "updated_at"}

\* NodeLabelType.required_properties
LabelRequiredProperties(l) ==
    base_properties \cup
    (CASE l = "EnergyTerm" -> {"definition", "fuel_group"}
       [] l = "RenewableSource" -> {"capacity", "technology_type"}
       [] l = "FossilFuel" -> {"carbon_intensity", "extraction_method"}
       [] l = "TechnicalConcept" -> {"description", "maturity_level"}
       [] l = "RegulatoryFramework" -> {"jurisdiction", "effective_date", "regulatory_body"}
       [] l = "TaxonomyNode" -> {"definition"}
       [] l = "Concept" -> {"definition"}
       [] l = "Category" -> {"description"}
       [] l = "RelationshipNode" -> {"relationship_type"}
       [] OTHER -> {})

\* ------------------------------------------------------------------------
\* Strings, as lists of characters
\* ------------------------------------------------------------------------
Uppers ==
    <<"A", "B", "C", "D", "E", "F", "G", "H", "I", "J", "K", "L", "M",
      "N", "O", "P", "Q", "R", "S", "T", "U", "V", "W", "X", "Y", "Z">>

Lowers ==
    <<"a", "b", "c", "d", "e", "f", "g", "h", "i", "j", "k", "l", "m",
      "n", "o", "p", "q", "r", "s", "t", "u", "v", "w", "x", "y", "z">>

Whitespace == {" ", "\t", "\n"}

IndexIn(l, c) == CHOOSE i \in 1..Len(l) : l[i] = c

CharLower(c) == IF \E i \in 1..Len(Uppers) : Uppers[i] = c THEN Lowers[IndexIn(Uppers, c)] ELSE c

CharUpper(c) == IF \E i \in 1..Len(Lowers) : Lowers[i] = c THEN Uppers[IndexIn(Lowers, c)] ELSE c

\* str.lower()
StrLower(s) == [i \in 1..Len(s) |-> CharLower(s[i])]

\* str.upper()
StrUpper(s) == [i \in 1..Len(s) |-> CharUpper(s[i])]

\* str.strip()
StrStrip(s) ==
    LET keep == {i \in 1..Len(s) : s[i] \notin Whitespace}
    IN IF keep = {} THEN <<>>
       ELSE SubSeq(s, CHOOSE i \in keep : \A j \in keep : i <= j,
                      CHOOSE i \in keep : \A j \in keep : i >= j)

\* str.replace(" ", "_")
StrReplaceSpaces(s) == [i \in 1..Len(s) |-> IF s[i] = " " THEN "_" ELSE s[i]]

\* kw in value
Contains(value, kw) ==
    \E i \in 1..(Len(value) - Len(kw) + 1) : SubSeq(value, i, i + Len(kw) - 1) = kw

\* label.value, character by character
LabelValue(l) ==
    CASE l = "EnergyTerm" -> <<"E", "n", "e", "r", "g", "y", "T", "e", "r", "m">>
      [] l = "RenewableSource" -> <<"R", "e", "n", "e", "w", "a", "b", "l", "e", "S", "o", "u", "r", "c", "e">>
      [] l = "FossilFuel" -> <<"F", "o", "s", "s", "i", "l", "F", "u", "e", "l">>
      [] l = "TechnicalConcept" -> <<"T", "e", "c", "h", "n", "i", "c", "a", "l", "C", "o", "n", "c", "e", "p", "t">>
      [] l = "RegulatoryFramework" -> <<"R", "e", "g", "u", "l", "a", "t", "o", "r", "y", "F", "r", "a", "m", "e", "w", "o", "r", "k">>
      [] l = "TaxonomyNode" -> <<"T", "a", "x", "o", "n", "o", "m", "y", "N", "o", "d", "e">>
      [] l = "Concept" -> <<"C", "o", "n", "c", "e", "p", "t">>
      [] l = "Category" -> <<"C", "a", "t", "e", "g", "o", "r", "y">>
      [] l = "RelationshipNode" -> <<"R", "e", "l", "a", "t", "i", "o", "n", "s", "h", "i", "p", "N", "o", "d", "e">>

\* NodeLabelType.from_string lines 251-275: the fuzzy rules, then the default
NodeLabelFuzzy(value) ==
    IF \/ Contains(value, <<"e", "n", "e", "r", "g", "y">>)
       \/ Contains(value, <<"t", "e", "r", "m">>)
    THEN "EnergyTerm"
    ELSE IF Contains(value, <<"r", "e", "n", "e", "w">>)
    THEN "RenewableSource"
    ELSE IF Contains(value, <<"f", "o", "s", "s", "i", "l">>)
    THEN "FossilFuel"
    ELSE IF \/ Contains(value, <<"t", "e", "c", "h">>)
            \/ Contains(value, <<"c", "o", "n", "c", "e", "p", "t">>)
    THEN "TechnicalConcept"
    ELSE IF \/ Contains(value, <<"r", "e", "g", "u", "l">>)
            \/ Contains(value, <<"f", "r", "a", "m", "e", "w", "o", "r", "k">>)
            \/ Contains(value, <<"l", "a", "w">>)
    THEN "RegulatoryFramework"
    ELSE IF Contains(value, <<"t", "a", "x", "o", "n", "o", "m", "y">>)
    THEN "TaxonomyNode"
    ELSE IF Contains(value, <<"c", "o", "n", "c", "e", "p", "t">>)
    THEN "Concept"
    ELSE IF Contains(value, <<"c", "a", "t", "e", "g", "o", "r", "y">>)
    THEN "Category"
    ELSE IF Contains(value, <<"r", "e", "l", "a", "t", "i", "o", "n">>)
    THEN "RelationshipNode"
    ELSE "TaxonomyNode"

\* a from_string that goes straight to the fuzzy rules
NodeLabelFromStringFuzzyOnly(text) == NodeLabelFuzzy(StrStrip(StrLower(text)))

\* NodeLabelType.from_string
NodeLabelFromString(text) ==
    LET value == StrStrip(StrLower(text))
    IN IF \E l \in NodeLabelType : StrLower(LabelValue(l)) = value
       THEN CHOOSE l \in NodeLabelType : StrLower(LabelValue(l)) = value
       ELSE NodeLabelFuzzy(value)

\* ========================================================================
\* NODE  (src/atlas/core/node.py, src/atlas/descriptors/cached_property.py)
\* ========================================================================
\* the inputs the model feeds to the node operations
NodeIds == {"n1"}
\* ids handed to the client: those of nodes, and one that no node has
LookupIds == NodeIds \cup {"unknown"}
ModelLabels == {"EnergyTerm", "Category"}
PropValues == {"a", "b"}

SeqsUpTo(S, n) == UNION {[1..k -> S] : k \in 0..n}

LabelLists == SeqsUpTo(ModelLabels, MaxLabels)

KeySets ==
    {{"name"},
     base_properties,
     base_properties \cup {"definition", "fuel_group"},
     base_properties \cup {"description"},
     {"definition", "fuel_group"},
     {"description"}}

\* property maps handed to create and update: every key of the map holds v
PropMaps == {[k \in ks |-> v] : ks \in KeySets, v \in PropValues}

\* CachedProperty.__get__, lines 76-79, with ttl = None: a cached entry is
\* returned whatever its age
CachedLookup(cached, name) == name \in DOMAIN cached

\* ATLASNode.required_properties, the function under the descriptor
ComputeRequired(labels) ==
    UNION {LabelRequiredProperties(labels[i]) : i \in 1..Len(labels)}

\* reading node.required_properties
ReadRequired(n) ==
    IF CachedLookup(n.cached, "required_properties")
    THEN n.cached["required_properties"]
    ELSE ComputeRequired(n.labels)

\* the node after node.required_properties was read (lines 82-86)
AfterReadRequired(n) ==
    IF CachedLookup(n.cached, "required_properties")
    THEN n
    ELSE [n EXCEPT !.cached = MapPut(@, "required_properties", ComputeRequired(n.labels))]

\* reading node.missing_properties
ReadMissing(n) ==
    IF CachedLookup(n.cached, "missing_properties")
    THEN n.cached["missing_properties"]
    ELSE ReadRequired(n) \ DOMAIN n.properties

\* the node after node.missing_properties was read
AfterReadMissing(n) ==
    IF CachedLookup(n.cached, "missing_properties")
    THEN n
    ELSE [AfterReadRequired(n) EXCEPT !.cached = MapPut(@, "missing_properties", ReadMissing(n))]

\* a validate() that asks for the name only
ValidateResultNameOnly(n) == "name" \in DOMAIN n.properties

\* ATLASNode.validate: what it returns
ValidateResult(n) == ReadMissing(n) = {}

\* a validate() that records a failed check in the node's status
AfterValidateMarksStatus(n) == [n EXCEPT !.validation_status = NEEDS_REVIEW]

\* ATLASNode.validate: the node afterwards (only the descriptor caches move)
AfterValidate(n) ==
    IF ReadMissing(n) # {}
    THEN AfterReadMissing(n)
    ELSE IF DOMAIN n.properties = {}
         THEN AfterReadMissing(n)
         ELSE AfterReadRequired(AfterReadMissing(n))

\* update decorated without the validation gate
UpdateWithoutGate == FALSE

\* node.py line 147: update is decorated with requires_validation=True
UpdateRequiresValidation == TRUE

\* ATLASNode.update, the body (lines 158-160)
UpdateBody(n, p, now) ==
    [n EXCEPT !.properties = MapMerge(@, p), !.updated_at = now]

\* ATLASNode.update behind the envelope: the gate calls node.validate() first
UpdateRaises(n) ==
    /\ GateApplies(UpdateRequiresValidation, TRUE, TRUE)
    /\ ~ValidateResult(n)

AfterUpdate(n, p, now) ==
    IF GateApplies(UpdateRequiresValidation, TRUE, TRUE)
    THEN IF ValidateResult(n)
         THEN UpdateBody(AfterValidate(n), p, now)
         ELSE AfterValidate(n)
    ELSE UpdateBody(n, p, now)

\* an assignment that consults the transition table first
CommitIfAllowed(current, target) ==
    IF target \in allowed_transitions(current) THEN target ELSE current

\* client.py lines 312-315: the new status is assigned as it is
Commit(current, target) == target

\* a validate_node that marks every node it finds as validated
TargetStatusAlwaysValidated(is_valid) == VALIDATED

\* client.py lines 312-315: the status validate_node assigns
TargetStatus(is_valid) == IF is_valid THEN VALIDATED ELSE NEEDS_REVIEW

\* validate_node(node_id) takes no validation fields from its caller
SuppliedFields == {}

NoCall ==
    [op |-> "none", id |-> None, raised |-> None, ret |-> None, from |-> None,
     target |-> None, committed |-> FALSE, props |-> EmptyMap, validated |-> None,
     supplied |-> {}, labels |-> <<>>, copy |-> <<>>]

NodeParked ==
    /\ adapter = FALSE
    /\ nodes = EmptyMap
    /\ stored = {}
    /\ clock = 0
    /\ last = NoCall

\* ATLASClient.__init__: with or without a graph adapter
NodeInit ==
    /\ adapter \in BOOLEAN
    /\ nodes = EmptyMap
    /\ stored = {}
    /\ clock = 0
    /\ last = NoCall

\* datetime.datetime.now() moves on
Tick ==
    /\ clock < MaxClock
    /\ clock' = clock + 1
    /\ UNCHANGED <<adapter, nodes, stored, last>>
    /\ UNCHANGED <<envVars, extVars>>

\* a constructor that accepts every label list
ValidateLabelsNeverRaises(labels) == FALSE

\* node.py lines 61-62: validate_labels raises when the node has no labels
ValidateLabelsRaises(labels) == labels = <<>>

\* ATLASClient.create_node -> ATLASNode.create -> validate_labels
CreateNode(labels, p) ==
    /\ \E id \in NodeIds \ DOMAIN nodes :
          IF ValidateLabelsRaises(labels)
          THEN /\ last' = [NoCall EXCEPT !.op = "create_node", !.raised = "ValidationError",
                                         !.props = p, !.labels = labels]
               /\ UNCHANGED <<nodes, stored>>
          ELSE /\ nodes' = MapPut(nodes, id,
                              [labels |-> labels, properties |-> p, created_at |-> clock,
                               updated_at |-> clock, validation_status |-> UNVALIDATED,
                               cached |-> EmptyMap])
               /\ stored' = IF adapter THEN stored \cup {id} ELSE stored
               /\ last' = [NoCall EXCEPT !.op = "create_node", !.id = id, !.ret = id,
                                         !.props = p, !.labels = labels]
    /\ UNCHANGED <<adapter, clock>>
    /\ UNCHANGED <<envVars, extVars>>

\* ATLASNode.update called on a node object
NodeUpdate(id, p) ==
    /\ id \in DOMAIN nodes
    /\ nodes' = [nodes EXCEPT ![id] = AfterUpdate(@, p, clock)]
    /\ last' = [NoCall EXCEPT !.op = "update", !.id = id, !.props = p,
                              !.raised = IF UpdateRaises(nodes[id]) THEN "ValueError" ELSE None,
                              !.ret = IF UpdateRaises(nodes[id]) THEN None ELSE id]
    /\ UNCHANGED <<adapter, stored, clock>>
    /\ UNCHANGED <<envVars, extVars>>

\* ATLASNode.validate called on a node object
NodeValidate(id) ==
    /\ id \in DOMAIN nodes
    /\ nodes' = [nodes EXCEPT ![id] = AfterValidate(@)]
    /\ last' = [NoCall EXCEPT !.op = "validate", !.id = id,
                              !.ret = ValidateResult(nodes[id]),
                              !.validated = ValidateResult(nodes[id])]
    /\ UNCHANGED <<adapter, stored, clock>>
    /\ UNCHANGED <<envVars, extVars>>

\* ATLASClient.update_node
UpdateNode(id, p) ==
    /\ IF ~adapter \/ id \notin stored
       THEN /\ last' = [NoCall EXCEPT !.op = "update_node", !.id = id, !.props = p]
            /\ UNCHANGED nodes
       ELSE /\ nodes' = [nodes EXCEPT ![id] = AfterUpdate(@, p, clock)]
            /\ last' = [NoCall EXCEPT !.op = "update_node", !.id = id, !.props = p,
                              !.raised = IF UpdateRaises(nodes[id]) THEN "ValueError" ELSE None,
                              !.ret = IF UpdateRaises(nodes[id]) THEN None ELSE id]
    /\ UNCHANGED <<adapter, stored, clock>>
    /\ UNCHANGED <<envVars, extVars>>

\* ATLASClient.validate_node
ValidateNode(id) ==
    /\ IF ~adapter \/ id \notin stored
       THEN /\ last' = [NoCall EXCEPT !.op = "validate_node", !.id = id, !.ret = FALSE]
            /\ UNCHANGED nodes
       ELSE LET node == nodes[id]
                is_valid == ValidateResult(node)
                target == TargetStatus(is_valid)
                status == Commit(node.validation_status, target)
            IN /\ nodes' = [nodes EXCEPT ![id] =
                               [AfterValidate(node) EXCEPT !.validation_status = status]]
               /\ last' = [NoCall EXCEPT !.op = "validate_node", !.id = id,
                                         !.ret = is_valid, !.validated = is_valid,
                                         !.from = node.validation_status,
                                         !.target = target,
                                         !.committed = (status = target),
                                         !.supplied = SuppliedFields]
    /\ UNCHANGED <<adapter, stored, clock>>
    /\ UNCHANGED <<envVars, extVars>>

\* a datetime of the model clock as its date and its time of day
DatePart(t) == t \div 2
TimePart(t) == t % 2

\* datetime.isoformat(): the date, "T", the time
IsoFormat(t) == <<DatePart(t), "T", TimePart(t)>>

\* a parser that reads the date and drops the time of day
FromIsoFormatDateOnly(s) == s[1] * 2

\* datetime.datetime.fromisoformat
FromIsoFormat(s) == s[1] * 2 + s[3]

\* ATLASNode.to_dict
to_dict(id, n) ==
    [id |-> id,
     labels |-> [i \in 1..Len(n.labels) |-> LabelValue(n.labels[i])],
     properties |-> n.properties,
     created_at |-> IsoFormat(n.created_at),
     updated_at |-> IsoFormat(n.updated_at),
     validation_status |-> n.validation_status]

\* validate_label_types, for one string: the label of that value, else from_string
LabelOfString(text) ==
    IF \E l \in NodeLabelType : LabelValue(l) = text
    THEN CHOOSE l \in NodeLabelType : LabelValue(l) = text
    ELSE NodeLabelFromString(text)

\* ValidationStatusType(data["validation_status"]) raises ValueError for an unknown value
FromDictRaises(data) ==
    \/ data.validation_status \notin ValidationStatusType
    \/ ValidateLabelsRaises(data.labels)

\* ATLASNode.from_dict: the node built from the dictionary
from_dict(data) ==
    [id |-> data.id,
     labels |-> [i \in 1..Len(data.labels) |-> LabelOfString(data.labels[i])],
     properties |-> data.properties,
     created_at |-> FromIsoFormat(data.created_at),
     updated_at |-> FromIsoFormat(data.updated_at),
     validation_status |-> data.validation_status,
     cached |-> EmptyMap]

\* ATLASNode.from_dict(node.to_dict())
RoundTrip(id) ==
    /\ id \in DOMAIN nodes
    /\ LET data == to_dict(id, nodes[id])
       IN last' = IF FromDictRaises(data)
                  THEN [NoCall EXCEPT !.op = "round_trip", !.id = id, !.raised = "ValueError"]
                  ELSE [NoCall EXCEPT !.op = "round_trip", !.id = id, !.ret = id,
                                      !.copy = <<from_dict(data)>>]
    /\ UNCHANGED <<adapter, nodes, stored, clock>>
    /\ UNCHANGED <<envVars, extVars>>

NodeNext ==
    \/ Tick
    \/ \E labels \in LabelLists, p \in PropMaps : CreateNode(labels, p)
    \/ \E id \in NodeIds, p \in PropMaps : NodeUpdate(id, p)
    \/ \E id \in NodeIds : NodeValidate(id)
    \/ \E id \in LookupIds, p \in PropMaps : UpdateNode(id, p)
    \/ \E id \in LookupIds : ValidateNode(id)
    \/ \E id \in NodeIds : RoundTrip(id)

\* ========================================================================
\* BEHAVIOUR COMPOSITION  (src/atlas/core/node.py, create / register_behavior)
\* ========================================================================
BehaviorNames == {"computation", "analysis"}
Callables == {"f1", "f2"}
Contexts == {"ctx1", "ctx2"}
EntityIds == {"e1"}

\* the behaviors argument of create: None, or a list of names
BehaviorLists ==
    {[none |-> TRUE, names |-> <<>>]}
    \cup {[none |-> FALSE, names |-> l] : l \in SeqsUpTo(BehaviorNames, Cardinality(BehaviorNames))}

\* the property maps the behaviour model creates entities with
EntityProps == {EmptyMap} \cup {[k \in base_properties |-> v] : v \in PropValues}

\* `if behaviors:` (node.py line 216)
Truthy(behaviors) == ~behaviors.none /\ behaviors.names # <<>>

\* the names a behaviors argument holds
Requested(behaviors) ==
    IF Truthy(behaviors)
    THEN {behaviors.names[i] : i \in 1..Len(behaviors.names)}
    ELSE {}

\* the function set on the node as it is, bound to nothing
BindNothing(f, id) == <<"bound", f, None>>

\* behavior_func.__get__(node, cls): the function bound to the node
Bind(f, id) == <<"bound", f, id>>

\* what a bound function returns when it is called with a context
CallBound(b, ctx) == <<"result", b[2], b[3], ctx>>

\* a create that attaches every registered behaviour, asked for or not
AttachEveryRegistered(behaviors, reg, id) == [name \in DOMAIN reg |-> Bind(reg[name], id)]

\* node.py lines 216-220: each requested name found in the registry is set
\* on the node as the bound function
AttachBehaviors(behaviors, reg, id) ==
    [name \in Requested(behaviors) \cap DOMAIN reg |-> Bind(reg[name], id)]

\* ret holds the returned value as a one-element list, <<>> when nothing was
\* returned; invoked lists the bound functions the call invoked
NoBehaviorCall ==
    [op |-> "none", id |-> None, name |-> None, ctx |-> None, raised |-> None,
     ret |-> <<>>, invoked |-> <<>>, labels |-> <<>>]

BehParked ==
    /\ registry = EmptyMap
    /\ entities = EmptyMap
    /\ creation = EmptyMap
    /\ blast = NoBehaviorCall

\* node.py line 48: the registry starts empty
BehInit ==
    /\ registry = EmptyMap
    /\ entities = EmptyMap
    /\ creation = EmptyMap
    /\ blast = NoBehaviorCall

\* has_behavior(entity, name): membership in the entity's attached behaviours
has_behavior(e, name) == name \in DOMAIN e.attached

\* execute_behavior: the name is among the entity's attached behaviours
ExecuteFinds(e, name) == name \in DOMAIN e.attached

\* everything the behaviour operations leave alone
notBehVars == <<envVars, nodeVars, taxVars, fnVars, fabVars>>

\* @ATLASNode.register_behavior(name) applied to a function
RegisterBehavior(name, f) ==
    /\ registry' = MapPut(registry, name, f)
    /\ blast' = [NoBehaviorCall EXCEPT !.op = "register_behavior", !.name = name]
    /\ UNCHANGED <<entities, creation>>
    /\ UNCHANGED notBehVars

\* ATLASNode.create(labels, properties, behaviors)
Create(labels, p, behaviors) ==
    /\ \E id \in EntityIds \ DOMAIN entities :
          IF ValidateLabelsRaises(labels)
          THEN /\ blast' = [NoBehaviorCall EXCEPT !.op = "create", !.raised = "ValidationError",
                                                   !.labels = labels]
               /\ UNCHANGED <<entities, creation>>
          ELSE /\ entities' = MapPut(entities, id,
                                 [id |-> id, labels |-> labels, properties |-> p,
                                  attached |-> AttachBehaviors(behaviors, registry, id)])
               /\ creation' = MapPut(creation, id,
                                 [labels |-> labels, properties |-> p,
                                  behaviors |-> behaviors, registry |-> registry])
               /\ blast' = [NoBehaviorCall EXCEPT !.op = "create", !.id = id, !.ret = <<id>>,
                                                   !.labels = labels]
    /\ UNCHANGED registry
    /\ UNCHANGED notBehVars

\* node.has_behavior(name)
HasBehavior(id, name) ==
    /\ id \in DOMAIN entities
    /\ blast' = [NoBehaviorCall EXCEPT !.op = "has_behavior", !.id = id, !.name = name,
                                       !.ret = <<has_behavior(entities[id], name)>>]
    /\ UNCHANGED <<registry, entities, creation>>
    /\ UNCHANGED notBehVars

\* node.execute_behavior(name, context)
ExecuteBehavior(id, name, ctx) ==
    /\ id \in DOMAIN entities
    /\ LET b == entities[id].attached[name]
       IN IF ~ExecuteFinds(entities[id], name)
          THEN blast' = [NoBehaviorCall EXCEPT !.op = "execute_behavior", !.id = id,
                                              !.name = name, !.ctx = ctx,
                                              !.raised = "BehaviorError"]
          ELSE blast' = [NoBehaviorCall EXCEPT !.op = "execute_behavior", !.id = id,
                                              !.name = name, !.ctx = ctx,
                                              !.invoked = <<b>>,
                                              !.ret = <<CallBound(b, ctx)>>]
    /\ UNCHANGED <<registry, entities, creation>>
    /\ UNCHANGED notBehVars

BehNext ==
    \/ \E name \in BehaviorNames, f \in Callables : RegisterBehavior(name, f)
    \/ \E labels \in LabelLists, p \in EntityProps, behaviors \in BehaviorLists :
          Create(labels, p, behaviors)
    \/ \E id \in EntityIds, name \in BehaviorNames : HasBehavior(id, name)
    \/ \E id \in EntityIds, name \in BehaviorNames, ctx \in Contexts :
          ExecuteBehavior(id, name, ctx)

\* ========================================================================
\* TAXONOMY ANALYSIS  (src/atlas/core/taxonomy.py, src/atlas/core/relationship.py)
\* ========================================================================
RelationshipType ==
    {"IS_A", "PART_OF", "CONTAINS", "SUBCLASS_OF", "RELATED_TO", "SIMILAR_TO",
     "OPPOSITE_OF", "PRODUCES", "CONSUMES", "USES", "REGULATES", "REGULATED_BY",
     "EXTRACTED_FROM", "LOCATED_IN", "DEPENDS_ON", "IMPROVES", "REPLACES",
     "CONNECTS", "DEFINED_BY", "REFERENCES", "SUPERSEDES", "ENFORCED_BY"}

\* RelationshipType.is_hierarchical
is_hierarchical(t) == t \in {"IS_A", "PART_OF", "CONTAINS", "SUBCLASS_OF"}

\* rel.is_hierarchical on a relationship: that of its type
RelIsHierarchical(rel) == is_hierarchical(rel.type)

\* the value of a relationship type, character by character
RelValue(t) ==
    CASE t = "IS_A" -> <<"I", "S", "_", "A">>
      [] t = "PART_OF" -> <<"P", "A", "R", "T", "_", "O", "F">>
      [] t = "CONTAINS" -> <<"C", "O", "N", "T", "A", "I", "N", "S">>
      [] t = "SUBCLASS_OF" -> <<"S", "U", "B", "C", "L", "A", "S", "S", "_", "O", "F">>
      [] t = "RELATED_TO" -> <<"R", "E", "L", "A", "T", "E", "D", "_", "T", "O">>
      [] t = "SIMILAR_TO" -> <<"S", "I", "M", "I", "L", "A", "R", "_", "T", "O">>
      [] t = "OPPOSITE_OF" -> <<"O", "P", "P", "O", "S", "I", "T", "E", "_", "O", "F">>
      [] t = "PRODUCES" -> <<"P", "R", "O", "D", "U", "C", "E", "S">>
      [] t = "CONSUMES" -> <<"C", "O", "N", "S", "U", "M", "E", "S">>
      [] t = "USES" -> <<"U", "S", "E", "S">>
      [] t = "REGULATES" -> <<"R", "E", "G", "U", "L", "A", "T", "E", "S">>
      [] t = "REGULATED_BY" -> <<"R", "E", "G", "U", "L", "A", "T", "E", "D", "_", "B", "Y">>
      [] t = "EXTRACTED_FROM" -> <<"E", "X", "T", "R", "A", "C", "T", "E", "D", "_", "F", "R", "O", "M">>
      [] t = "LOCATED_IN" -> <<"L", "O", "C", "A", "T", "E", "D", "_", "I", "N">>
      [] t = "DEPENDS_ON" -> <<"D", "E", "P", "E", "N", "D", "S", "_", "O", "N">>
      [] t = "IMPROVES" -> <<"I", "M", "P", "R", "O", "V", "E", "S">>
      [] t = "REPLACES" -> <<"R", "E", "P", "L", "A", "C", "E", "S">>
      [] t = "CONNECTS" -> <<"C", "O", "N", "N", "E", "C", "T", "S">>
      [] t = "DEFINED_BY" -> <<"D", "E", "F", "I", "N", "E", "D", "_", "B", "Y">>
      [] t = "REFERENCES" -> <<"R", "E", "F", "E", "R", "E", "N", "C", "E", "S">>
      [] t = "SUPERSEDES" -> <<"S", "U", "P", "E", "R", "S", "E", "D", "E", "S">>
      [] t = "ENFORCED_BY" -> <<"E", "N", "F", "O", "R", "C", "E", "D", "_", "B", "Y">>

\* RelationshipType.from_string lines 312-359: the fuzzy rules, then the default
RelationshipFuzzy(value) ==
    IF /\ Contains(value, <<"I", "S">>)
       /\ Contains(value, <<"A">>)
    THEN "IS_A"
    ELSE IF Contains(value, <<"P", "A", "R", "T">>)
    THEN "PART_OF"
    ELSE IF Contains(value, <<"C", "O", "N", "T", "A", "I", "N">>)
    THEN "CONTAINS"
    ELSE IF \/ Contains(value, <<"C", "L", "A", "S", "S">>)
            \/ Contains(value, <<"S", "U", "B", "C", "L", "A", "S", "S">>)
    THEN "SUBCLASS_OF"
    ELSE IF Contains(value, <<"R", "E", "L", "A", "T">>)
    THEN "RELATED_TO"
    ELSE IF Contains(value, <<"S", "I", "M", "I", "L", "A", "R">>)
    THEN "SIMILAR_TO"
    ELSE IF \/ Contains(value, <<"O", "P", "P", "O", "S", "I", "T", "E">>)
            \/ Contains(value, <<"C", "O", "N", "T", "R", "A", "R", "Y">>)
    THEN "OPPOSITE_OF"
    ELSE IF Contains(value, <<"P", "R", "O", "D", "U", "C">>)
    THEN "PRODUCES"
    ELSE IF Contains(value, <<"C", "O", "N", "S", "U", "M">>)
    THEN "CONSUMES"
    ELSE IF \/ Contains(value, <<"U", "S", "E">>)
            \/ Contains(value, <<"U", "S", "E", "S">>)
            \/ Contains(value, <<"U", "S", "I", "N", "G">>)
    THEN "USES"
    ELSE IF /\ Contains(value, <<"R", "E", "G", "U", "L", "A", "T">>)
            /\ Contains(value, <<"B", "Y">>)
    THEN "REGULATED_BY"
    ELSE IF Contains(value, <<"R", "E", "G", "U", "L", "A", "T">>)
    THEN "REGULATES"
    ELSE IF Contains(value, <<"E", "X", "T", "R", "A", "C", "T">>)
    THEN "EXTRACTED_FROM"
    ELSE IF Contains(value, <<"L", "O", "C", "A", "T">>)
    THEN "LOCATED_IN"
    ELSE IF Contains(value, <<"D", "E", "P", "E", "N", "D">>)
    THEN "DEPENDS_ON"
    ELSE IF Contains(value, <<"I", "M", "P", "R", "O", "V">>)
    THEN "IMPROVES"
    ELSE IF Contains(value, <<"R", "E", "P", "L", "A", "C">>)
    THEN "REPLACES"
    ELSE IF Contains(value, <<"C", "O", "N", "N", "E", "C", "T">>)
    THEN "CONNECTS"
    ELSE IF Contains(value, <<"D", "E", "F", "I", "N">>)
    THEN "DEFINED_BY"
    ELSE IF Contains(value, <<"R", "E", "F", "E", "R">>)
    THEN "REFERENCES"
    ELSE IF Contains(value, <<"S", "U", "P", "E", "R">>)
    THEN "SUPERSEDES"
    ELSE IF Contains(value, <<"E", "N", "F", "O", "R", "C">>)
    THEN "ENFORCED_BY"
    ELSE "RELATED_TO"

\* RelationshipType.from_string
RelationshipFromString(text) ==
    LET value == StrReplaceSpaces(StrStrip(StrUpper(text)))
    IN IF \E t \in RelationshipType : RelValue(t) = value
       THEN CHOOSE t \in RelationshipType : RelValue(t) = value
       ELSE RelationshipFuzzy(value)


\* the member names the dict literal of inverse_relationship evaluates
\* (lines 110-134): the keys self.X.value and the values self.Y
InverseMapNames ==
    RelationshipType \cup
    {"PRODUCED_BY", "CONSUMED_BY", "USED_BY", "EXTRACTION_SOURCE_FOR", "LOCATION_OF",
     "DEPENDENCY_FOR", "IMPROVED_BY", "REPLACED_BY", "DEFINES", "REFERENCED_BY",
     "SUPERSEDED_BY", "ENFORCES"}

\* inverse_map, by the value of the type
inverse_map(t) ==
    CASE t = "IS_A" -> None
      [] t = "PART_OF" -> "CONTAINS"
      [] t = "CONTAINS" -> "PART_OF"
      [] t = "SUBCLASS_OF" -> None
      [] t = "RELATED_TO" -> "RELATED_TO"
      [] t = "SIMILAR_TO" -> "SIMILAR_TO"
      [] t = "OPPOSITE_OF" -> "OPPOSITE_OF"
      [] t = "PRODUCES" -> "PRODUCED_BY"
      [] t = "CONSUMES" -> "CONSUMED_BY"
      [] t = "USES" -> "USED_BY"
      [] t = "REGULATES" -> "REGULATED_BY"
      [] t = "REGULATED_BY" -> "REGULATES"
      [] t = "EXTRACTED_FROM" -> "EXTRACTION_SOURCE_FOR"
      [] t = "LOCATED_IN" -> "LOCATION_OF"
      [] t = "DEPENDS_ON" -> "DEPENDENCY_FOR"
      [] t = "IMPROVES" -> "IMPROVED_BY"
      [] t = "REPLACES" -> "REPLACED_BY"
      [] t = "CONNECTS" -> "CONNECTS"
      [] t = "DEFINED_BY" -> "DEFINES"
      [] t = "REFERENCES" -> "REFERENCED_BY"
      [] t = "SUPERSEDES" -> "SUPERSEDED_BY"
      [] t = "ENFORCED_BY" -> "ENFORCES"

\* RelationshipType.inverse_relationship: building the dict literal looks up
\* every name in it on the enum, and a name the enum does not have raises
\* AttributeError before anything is looked up in the map
inverse_relationship(t) ==
    IF \E name \in InverseMapNames : name \notin RelationshipType
    THEN "AttributeError"
    ELSE IF inverse_map(t) = None THEN None
    ELSE IF inverse_map(t) \in RelationshipType THEN inverse_map(t)
    ELSE None

TaxIds == {"A", "B", "C"}
TaxTypes == {"IS_A", "RELATED_TO"}

\* lists without repetition over a set
Orders(S) == {l \in SeqsUpTo(S, Cardinality(S)) : \A i, j \in 1..Len(l) : i # j => l[i] # l[j]}

Range(l) == {l[i] : i \in 1..Len(l)}

TaxRels == [start_node_id : TaxIds, end_node_id : TaxIds, type : TaxTypes]

\* analyze_taxonomy lines 258-279: the relationships collected are those
\* that start or end at one of the nodes found
FoundRels(nodeList) ==
    {l \in SeqsUpTo(TaxRels, MaxRels) :
        \A i \in 1..Len(l) : l[i].start_node_id \in Range(nodeList)
                                \/ l[i].end_node_id \in Range(nodeList)}

Ratio(n, d) == [num |-> n, den |-> d]
Zero == Ratio(0, 1)

\* a connectivity over unordered pairs
ConnectivityUndirected(nodeList, rels) ==
    IF Len(nodeList) <= 1 THEN Zero
    ELSE Ratio(Len(rels), (Len(nodeList) * (Len(nodeList) - 1)) \div 2)

\* TaxonomyExtractor._calculate_connectivity
CalculateConnectivity(nodeList, rels) ==
    IF Len(nodeList) <= 1 THEN Zero
    ELSE LET max_relationships == Len(nodeList) * (Len(nodeList) - 1)
         IN IF max_relationships = 0 THEN Zero
            ELSE Ratio(Len(rels), max_relationships)

\* lines 370-372: a hierarchical relationship whose start node has no entry
BuildRaises(nodeList, rels) ==
    \E i \in 1..Len(rels) :
        RelIsHierarchical(rels[i]) /\ rels[i].start_node_id \notin Range(nodeList)

\* an adjacency that lists the start node under each end node
BuildAdjacencyReversed(nodeList, rels) ==
    [id \in Range(nodeList) |->
        LET out == SelectSeq(rels, LAMBDA r : RelIsHierarchical(r) /\ r.end_node_id = id)
        IN [i \in 1..Len(out) |-> out[i].start_node_id]]

\* lines 366-372: the adjacency list of the hierarchical relationships
BuildAdjacency(nodeList, rels) ==
    [id \in Range(nodeList) |->
        LET out == SelectSeq(rels, LAMBDA r : RelIsHierarchical(r) /\ r.start_node_id = id)
        IN [i \in 1..Len(out) |-> out[i].end_node_id]]

\* adjacency.get(node_id, [])
AdjacencyGet(adj, id) == IF id \in DOMAIN adj THEN adj[id] ELSE <<>>

TaxParked ==
    /\ tnodes = <<>>
    /\ trels = <<>>
    /\ tpc = "parked"
    /\ connectivity = Zero
    /\ adjacency = EmptyMap
    /\ visited = {}
    /\ max_depth = 0
    /\ stack = <<>>
    /\ ti = 1

\* analyze_taxonomy after the nodes and relationships have been found
TaxInit ==
    /\ tnodes \in Orders(TaxIds)
    /\ trels \in FoundRels(tnodes)
    /\ tpc = "connectivity"
    /\ connectivity = Zero
    /\ adjacency = EmptyMap
    /\ visited = {}
    /\ max_depth = 0
    /\ stack = <<>>
    /\ ti = 1

\* everything the analysis leaves alone
notTaxVars == <<envVars, nodeVars, behVars, fnVars, fabVars>>

\* a dfs that counts the nodes on the path instead of the edges
DepthOnEntryCountingNodes(depth) == IF depth + 1 > max_depth THEN depth + 1 ELSE max_depth

\* dfs lines 380-381: max_depth after a call at this depth has started
DepthOnEntry(depth) == IF depth > max_depth THEN depth ELSE max_depth

\* "connectivity": self._calculate_connectivity(nodes, unique_relationships)
Connectivity ==
    /\ tpc = "connectivity"
    /\ connectivity' = CalculateConnectivity(tnodes, trels)
    /\ tpc' = "adjacency"
    /\ UNCHANGED <<tnodes, trels, adjacency, visited, max_depth, stack, ti>>
    /\ UNCHANGED notTaxVars

\* _calculate_hierarchical_depth lines 365-376: the adjacency list is built,
\* or the lookup of a start node that is not among the nodes raises KeyError
Adjacency ==
    /\ tpc = "adjacency"
    /\ IF BuildRaises(tnodes, trels)
       THEN /\ tpc' = "raised"
            /\ UNCHANGED adjacency
       ELSE /\ tpc' = "loop"
            /\ adjacency' = BuildAdjacency(tnodes, trels)
    /\ UNCHANGED <<tnodes, trels, connectivity, visited, max_depth, stack, ti>>
    /\ UNCHANGED notTaxVars

\* lines 388-390: the loop reaches a node not yet visited and calls dfs(node.id, 0)
StartDfs ==
    /\ tpc = "loop"
    /\ stack = <<>>
    /\ ti <= Len(tnodes)
    /\ tnodes[ti] \notin visited
    /\ max_depth' = DepthOnEntry(0)
    /\ visited' = visited \cup {tnodes[ti]}
    /\ stack' = <<[node_id |-> tnodes[ti], depth |-> 0, k |-> 1]>>
    /\ ti' = ti + 1
    /\ UNCHANGED <<tnodes, trels, tpc, connectivity, adjacency>>
    /\ UNCHANGED notTaxVars

\* lines 388-389: the loop passes over a node already visited
SkipVisited ==
    /\ tpc = "loop"
    /\ stack = <<>>
    /\ ti <= Len(tnodes)
    /\ tnodes[ti] \in visited
    /\ ti' = ti + 1
    /\ UNCHANGED <<tnodes, trels, tpc, connectivity, adjacency, visited, max_depth, stack>>
    /\ UNCHANGED notTaxVars

\* a dfs that goes into every child, visited or not
DfsChildIgnoringVisited ==
    /\ tpc = "loop"
    /\ stack # <<>>
    /\ LET top == stack[Len(stack)]
           children == AdjacencyGet(adjacency, top.node_id)
           rest == [stack EXCEPT ![Len(stack)].k = top.k + 1]
       IN /\ top.k <= Len(children)
          /\ max_depth' = DepthOnEntry(top.depth + 1)
          /\ visited' = visited \cup {children[top.k]}
          /\ stack' = Append(rest, [node_id |-> children[top.k],
                                     depth |-> top.depth + 1, k |-> 1])
    /\ UNCHANGED <<tnodes, trels, tpc, connectivity, adjacency, ti>>
    /\ UNCHANGED notTaxVars

\* dfs lines 384-386: the innermost call looks at its next child and calls
\* dfs(child_id, depth + 1) when the child is not visited
DfsChild ==
    /\ tpc = "loop"
    /\ stack # <<>>
    /\ LET top == stack[Len(stack)]
           children == AdjacencyGet(adjacency, top.node_id)
           rest == [stack EXCEPT ![Len(stack)].k = top.k + 1]
       IN /\ top.k <= Len(children)
          /\ IF children[top.k] \in visited
             THEN /\ stack' = rest
                  /\ UNCHANGED <<visited, max_depth>>
             ELSE /\ max_depth' = DepthOnEntry(top.depth + 1)
                  /\ visited' = visited \cup {children[top.k]}
                  /\ stack' = Append(rest, [node_id |-> children[top.k],
                                             depth |-> top.depth + 1, k |-> 1])
    /\ UNCHANGED <<tnodes, trels, tpc, connectivity, adjacency, ti>>
    /\ UNCHANGED notTaxVars

\* the innermost dfs call has looked at all its children and returns
DfsReturn ==
    /\ tpc = "loop"
    /\ stack # <<>>
    /\ LET top == stack[Len(stack)]
       IN top.k > Len(AdjacencyGet(adjacency, top.node_id))
    /\ stack' = SubSeq(stack, 1, Len(stack) - 1)
    /\ UNCHANGED <<tnodes, trels, tpc, connectivity, adjacency, visited, max_depth, ti>>
    /\ UNCHANGED notTaxVars

\* line 392: return max_depth
ReturnDepth ==
    /\ tpc = "loop"
    /\ stack = <<>>
    /\ ti > Len(tnodes)
    /\ tpc' = "done"
    /\ UNCHANGED <<tnodes, trels, connectivity, adjacency, visited, max_depth, stack, ti>>
    /\ UNCHANGED notTaxVars

TaxNext ==
    \/ Connectivity
    \/ Adjacency
    \/ StartDfs
    \/ SkipVisited
    \/ DfsChild
    \/ DfsReturn
    \/ ReturnDepth

\* ========================================================================
\* ENUM FUNCTIONS  (NodeLabelType.from_string, RelationshipType.from_string,
\*                  RelationshipType.inverse_relationship)
\* ========================================================================
\* the pieces the input texts are put together from
Fragments ==
    {<<"C", "o", "n", "c", "e", "p", "t">>,
     <<"e", "n", "e", "r", "g", "y">>,
     <<"r", "e", "n", "e", "w">>,
     <<"t", "e", "c", "h">>,
     <<" ">>,
     <<"i", "s">>,
     <<"a">>,
     <<"p", "a", "r", "t">>,
     <<"r", "e", "g", "u", "l", "a", "t">>,
     <<"b", "y">>,
     <<"u", "s", "e">>,
     <<"x">>}

RECURSIVE Flatten(_)
Flatten(l) == IF l = <<>> THEN <<>> ELSE Head(l) \o Flatten(Tail(l))

Texts == {Flatten(l) : l \in SeqsUpTo(Fragments, MaxFragments)}

FnInputs ==
    {[kind |-> "text", text |-> t, type |-> None] : t \in Texts}
    \cup {[kind |-> "type", text |-> <<>>, type |-> t] : t \in RelationshipType}
    \cup {[kind |-> "status", text |-> <<>>, type |-> t] : t \in ValidationStatusType}

FnParked ==
    /\ finput = [kind |-> "none", text |-> <<>>, type |-> None]
    /\ fop = "none"
    /\ fout = <<>>

FnInit ==
    /\ finput \in FnInputs
    /\ fop = "none"
    /\ fout = <<>>

notFnVars == <<envVars, nodeVars, behVars, taxVars, fabVars>>

\* NodeLabelType.from_string(text)
LabelFromString ==
    /\ finput.kind = "text"
    /\ fop' = "label_from_string"
    /\ fout' = <<NodeLabelFromString(finput.text)>>
    /\ UNCHANGED finput
    /\ UNCHANGED notFnVars

\* RelationshipType.from_string(text)
TypeFromString ==
    /\ finput.kind = "text"
    /\ fop' = "relationship_from_string"
    /\ fout' = <<RelationshipFromString(finput.text)>>
    /\ UNCHANGED finput
    /\ UNCHANGED notFnVars

\* t.inverse_relationship, and the inverse of that when it is a type
Inverse ==
    /\ finput.kind = "type"
    /\ fop' = "inverse_relationship"
    /\ LET inv == inverse_relationship(finput.type)
       IN fout' = <<inv, IF inv \in RelationshipType THEN inverse_relationship(inv) ELSE None>>
    /\ UNCHANGED finput
    /\ UNCHANGED notFnVars

\* the statuses that follow a set of statuses by allowed transitions, and
\* those that follow these, until nothing new is found
RECURSIVE TransitionClosure(_)
TransitionClosure(S) ==
    LET more == S \cup UNION {allowed_transitions(x) : x \in S}
    IN IF more = S THEN S ELSE TransitionClosure(more)

\* s.allowed_transitions, and the statuses reached from s by one or more
\* allowed transitions
AllowedTransitions ==
    /\ finput.kind = "status"
    /\ fop' = "allowed_transitions"
    /\ fout' = <<allowed_transitions(finput.type),
                 TransitionClosure(allowed_transitions(finput.type))>>
    /\ UNCHANGED finput
    /\ UNCHANGED notFnVars

FnNext ==
    \/ LabelFromString
    \/ TypeFromString
    \/ Inverse
    \/ AllowedTransitions

\* ========================================================================
\* THE PATTERN WRAPPER  (src/atlas/decorators/fabric_pattern.py)
\* ========================================================================
\* what a call can be made on: a bare call func(), a method of an object
\* without a fabric_registry attribute, with fabric_registry None, with a
\* registry that lacks the pattern, and with a registry that has it
FabTargets == {"no_instance", "no_attribute", "registry_none", "pattern_missing",
               "pattern_found"}

\* lines 48-53: fabric_registry is not None
RegistryAvailable(target) == target \in {"pattern_missing", "pattern_found"}

\* lines 55-56: fabric_registry.get_pattern(pattern_name) is not None
PatternFound(target) == target = "pattern_found"

\* the parameters a pattern can be decorated with
ParameterChoices == {<<>>, <<[mode |-> "deep"]>>}

\* line 45: pattern_params = parameters or {}
PatternParams(params) == IF params = <<>> THEN EmptyMap ELSE params[1]

\* pattern.process(result, **pattern_params), when it returns
Enhanced(v, pattern_params) == <<"enhanced", v, pattern_params>>

\* lines 70-73: the handler falls back to func(*args, **kwargs)
AfterFailure == "fallback"

FabParked ==
    /\ parameters = <<>>
    /\ fabtarget = "no_instance"
    /\ fabpc = "parked"
    /\ fabarg = 0
    /\ fabcalls = <<>>
    /\ fabprocess = <<>>
    /\ fabout = <<>>

FabInit ==
    /\ parameters \in ParameterChoices
    /\ fabtarget \in FabTargets
    /\ fabpc = "idle"
    /\ fabarg = 0
    /\ fabcalls = <<>>
    /\ fabprocess = <<>>
    /\ fabout = <<>>

notFabVars == <<envVars, nodeVars, behVars, taxVars, fnVars>>

\* wrapper lines 37-58 and 74-77: the call enters and reaches the try block
\* or one of the plain calls of func
FabCall(a) ==
    /\ fabpc = "idle"
    /\ fabarg' = a
    /\ fabcalls' = <<>>
    /\ fabprocess' = <<>>
    /\ fabout' = <<>>
    /\ fabpc' = IF RegistryAvailable(fabtarget) /\ PatternFound(fabtarget)
                THEN "try" ELSE "direct"
    /\ UNCHANGED <<parameters, fabtarget>>
    /\ UNCHANGED notFabVars

\* func(*args, **kwargs) returns v: at line 58 or 77 (the wrapper returns
\* it), at line 63 (process comes next), or at line 73 (the fallback's value
\* is returned)
FuncReturns(v) ==
    /\ fabpc \in {"direct", "try", "fallback"}
    /\ fabcalls' = Append(fabcalls, [kind |-> "return", val |-> v])
    /\ IF fabpc = "try"
       THEN /\ fabpc' = "process"
            /\ UNCHANGED fabout
       ELSE /\ fabpc' = "returned"
            /\ fabout' = <<v>>
    /\ UNCHANGED <<parameters, fabtarget, fabarg, fabprocess>>
    /\ UNCHANGED notFabVars

\* func(*args, **kwargs) raises e: outside the try block the exception
\* leaves the wrapper; at line 63 the handler takes it
FuncRaises(e) ==
    /\ fabpc \in {"direct", "try", "fallback"}
    /\ fabcalls' = Append(fabcalls, [kind |-> "raise", val |-> e])
    /\ IF fabpc = "try"
       THEN /\ fabpc' = AfterFailure
            /\ UNCHANGED fabout
       ELSE /\ fabpc' = "raised"
            /\ fabout' = <<e>>
    /\ UNCHANGED <<parameters, fabtarget, fabarg, fabprocess>>
    /\ UNCHANGED notFabVars

\* line 66-69: pattern.process returns and the enhanced result is returned
ProcessReturns ==
    /\ fabpc = "process"
    /\ fabprocess' = <<"return">>
    /\ fabout' = <<Enhanced(fabcalls[Len(fabcalls)].val, PatternParams(parameters))>>
    /\ fabpc' = "returned"
    /\ UNCHANGED <<parameters, fabtarget, fabarg, fabcalls>>
    /\ UNCHANGED notFabVars

\* line 66 raises: the handler of lines 70-73 takes it
ProcessRaises ==
    /\ fabpc = "process"
    /\ fabprocess' = <<"raise">>
    /\ fabpc' = AfterFailure
    /\ UNCHANGED <<parameters, fabtarget, fabarg, fabcalls, fabout>>
    /\ UNCHANGED notFabVars

\* the caller takes the value or the exception
FabDone ==
    /\ fabpc \in {"returned", "raised"}
    /\ fabpc' = "idle"
    /\ fabarg' = 0
    /\ fabcalls' = <<>>
    /\ fabprocess' = <<>>
    /\ fabout' = <<>>
    /\ UNCHANGED <<parameters, fabtarget>>
    /\ UNCHANGED notFabVars

FabNext ==
    \/ \E a \in ArgVals : FabCall(a)
    \/ \E v \in Values : FuncReturns(v)
    \/ \E e \in Errors : FuncRaises(e)
    \/ ProcessReturns
    \/ ProcessRaises
    \/ FabDone

ExtParked == BehParked /\ TaxParked /\ FnParked /\ FabParked

EnvelopeInit == EnvInit /\ NodeParked /\ ExtParked

ClientInit == NodeInit /\ EnvParked /\ ExtParked

BehaviorInit == BehInit /\ EnvParked /\ NodeParked /\ TaxParked /\ FnParked /\ FabParked

SpecBehavior == BehaviorInit /\ [][BehNext]_vars

TaxonomyInit == TaxInit /\ EnvParked /\ NodeParked /\ BehParked /\ FnParked /\ FabParked

SpecTaxonomy == TaxonomyInit /\ [][TaxNext]_vars

\* the analysis is straight-line code on one thread: a step that can be
\* taken is taken
SpecTaxonomyFair == TaxonomyInit /\ [][TaxNext]_vars /\ WF_vars(TaxNext)

FunctionsInit == FnInit /\ EnvParked /\ NodeParked /\ BehParked /\ TaxParked /\ FabParked

SpecFunctions == FunctionsInit /\ [][FnNext]_vars

SpecNode == ClientInit /\ [][NodeNext]_vars

FabricInit == FabInit /\ EnvParked /\ NodeParked /\ BehParked /\ TaxParked /\ FnParked

SpecFabric == FabricInit /\ [][FabNext]_vars

\* ------------------------------------------------------------------------
\* Properties of node construction
\* ------------------------------------------------------------------------
\* C11: a construction with an empty label list fails with a validation
\* error and returns no node, and every node that exists has at least one
\* label.
C11_NonEmptyLabels ==
    /\ \A id \in DOMAIN nodes : Len(nodes[id].labels) >= 1
    /\ (last.op = "create_node" /\ last.labels = <<>>)
          => (last.raised = "ValidationError" /\ last.ret = None /\ last.id = None)

\* an empty label list was refused while no node existed, and none exists after
C11_Witness ==
    /\ last.op = "create_node"
    /\ last.labels = <<>>
    /\ last.raised = "ValidationError"
    /\ nodes = EmptyMap

\* C19: from_dict(to_dict(node)) is a node with the same id, labels,
\* properties, created and updated timestamps and validation status, for
\* every node whose labels are canonical label variants.
C19_DictRoundTrip ==
    last.op = "round_trip" =>
        /\ last.raised = None
        /\ Len(last.copy) = 1
        /\ LET copy == last.copy[1]
               node == nodes[last.id]
           IN /\ copy.id = last.id
              /\ copy.labels = node.labels
              /\ copy.properties = node.properties
              /\ copy.created_at = node.created_at
              /\ copy.updated_at = node.updated_at
              /\ copy.validation_status = node.validation_status

\* a validated node that was updated after its creation went through the
\* round trip
C19_Witness ==
    /\ last.op = "round_trip"
    /\ Len(last.copy) = 1
    /\ nodes[last.id].validation_status = VALIDATED
    /\ nodes[last.id].updated_at # nodes[last.id].created_at
    /\ last.copy[1].updated_at = nodes[last.id].updated_at

\* ------------------------------------------------------------------------
\* Properties of behaviour composition
\* ------------------------------------------------------------------------
\* the name was asked for in the entity's create call and was registered then
AttachedAtCreation(e, name) ==
    /\ name \in Requested(creation[e].behaviors)
    /\ name \in DOMAIN creation[e].registry

\* C14: after create(labels, properties, behavior_names), has_behavior(node,
\* name) holds exactly for the names that were requested and were in the
\* registry at creation time; a requested name that was not registered is
\* skipped: create raises nothing and the node has the labels and properties
\* it was given.
C14_AttachedExactly ==
    /\ \A e \in DOMAIN entities : \A name \in BehaviorNames :
          has_behavior(entities[e], name) <=> AttachedAtCreation(e, name)
    /\ \A e \in DOMAIN entities :
          /\ entities[e].labels = creation[e].labels
          /\ entities[e].properties = creation[e].properties
    /\ (blast.op = "create" /\ blast.labels # <<>>)
          => (blast.raised = None /\ blast.id \in DOMAIN entities)
    /\ blast.op = "has_behavior"
          => blast.ret = <<AttachedAtCreation(blast.id, blast.name)>>

\* has_behavior answered false for a name that was requested but not yet
\* registered at creation, although it is registered now, and another
\* requested name is attached
C14_Witness ==
    /\ blast.op = "has_behavior"
    /\ blast.ret = <<FALSE>>
    /\ blast.name \in Requested(creation[blast.id].behaviors)
    /\ blast.name \notin DOMAIN creation[blast.id].registry
    /\ blast.name \in DOMAIN registry
    /\ \E other \in BehaviorNames : has_behavior(entities[blast.id], other)

C12_ValidateNodeOutcome ==
    [][(last'.op = "validate_node" /\ last' # last) =>
         IF adapter /\ last'.id \in stored
         THEN /\ last'.ret = ValidateResult(nodes[last'.id])
              /\ nodes'[last'.id].validation_status =
                    (IF last'.ret THEN VALIDATED ELSE NEEDS_REVIEW)
         ELSE /\ last'.ret = FALSE
              /\ DOMAIN nodes' = DOMAIN nodes
              /\ \A n \in DOMAIN nodes :
                    nodes'[n].validation_status = nodes[n].validation_status]_vars

\* validate_node found a node with missing properties and left it NEEDS_REVIEW
C12_Witness ==
    /\ last.op = "validate_node"
    /\ adapter
    /\ last.id \in stored
    /\ last.ret = FALSE
    /\ nodes[last.id].validation_status = NEEDS_REVIEW

\* C13: node.validate() changes none of the node's properties, labels,
\* timestamps and validation status.
C13_ValidateHasNoSideEffects ==
    [][(last'.op = "validate" /\ last' # last) =>
         /\ DOMAIN nodes' = DOMAIN nodes
         /\ \A n \in DOMAIN nodes :
               /\ nodes'[n].properties = nodes[n].properties
               /\ nodes'[n].labels = nodes[n].labels
               /\ nodes'[n].created_at = nodes[n].created_at
               /\ nodes'[n].updated_at = nodes[n].updated_at
               /\ nodes'[n].validation_status = nodes[n].validation_status]_vars

\* validate() ran on a node that has properties and had been through
\* validate_node, and returned false
C13_Witness ==
    /\ last.op = "validate"
    /\ last.ret = FALSE
    /\ DOMAIN nodes[last.id].properties # {}
    /\ nodes[last.id].validation_status = NEEDS_REVIEW
    /\ "missing_properties" \in DOMAIN nodes[last.id].cached

\* ------------------------------------------------------------------------
\* Properties of the taxonomy analysis
\* ------------------------------------------------------------------------
\* the hierarchical relationships of the analysis, in order
HierRels == SelectSeq(trels, LAMBDA r : RelIsHierarchical(r))

\* the hierarchical relationships are n edges that form one chain over the
\* n+1 nodes of the list, and the chain's root is the first node of the list
IsChainFromRoot ==
    /\ Len(tnodes) >= 1
    /\ Len(HierRels) = Len(tnodes) - 1
    /\ \E c \in Orders(TaxIds) :
          /\ Range(c) = Range(tnodes)
          /\ c[1] = tnodes[1]
          /\ {<<HierRels[i].start_node_id, HierRels[i].end_node_id>> : i \in 1..Len(HierRels)}
                = {<<c[i], c[i + 1]>> : i \in 1..(Len(c) - 1)}

\* C16: for a linear chain of n hierarchical edges over n+1 nodes, with the
\* traversal started from the chain's root, the hierarchical depth returned
\* is n.
C16_ChainDepth ==
    (tpc = "done" /\ IsChainFromRoot) => max_depth = Len(tnodes) - 1

\* a chain of two edges over three nodes was analysed from its root, with
\* the chain's last node second in the list, and the depth returned is 2
C16_Witness ==
    /\ tpc = "done"
    /\ IsChainFromRoot
    /\ Len(tnodes) = 3
    /\ max_depth = 2
    /\ \E i \in 1..Len(HierRels) : HierRels[i].start_node_id = tnodes[3]

HierEdges ==
    {<<HierRels[i].start_node_id, HierRels[i].end_node_id>> : i \in 1..Len(HierRels)}

\* the chains along hierarchical relationships: node lists in which each
\* node is joined to the next by a hierarchical relationship
Chains ==
    {c \in Orders(TaxIds) :
        /\ Len(c) >= 1
        /\ \A i \in 1..(Len(c) - 1) : <<c[i], c[i + 1]>> \in HierEdges}

\* no chain leads back to its first node (self-loops included)
Acyclic == \A c \in Chains : <<c[Len(c)], c[1]>> \notin HierEdges

\* the length in edges of the longest chain that touches the node list
LongestChain ==
    LET lens == {Len(c) - 1 : c \in {d \in Chains : Range(d) \cap Range(tnodes) # {}}}
    IN IF lens = {} THEN 0 ELSE CHOOSE n \in lens : \A k \in lens : k <= n

\* C23: for every node set, every acyclic set of relationships and every
\* order in which the nodes are supplied, the hierarchical depth returned
\* equals the length in edges of the longest chain along hierarchical
\* relationships.
C23_DepthIsLongestChain ==
    (tpc = "done" /\ Acyclic) => max_depth = LongestChain

\* C28: _calculate_hierarchical_depth terminates on every finite node and
\* relationship set, hierarchical cycles and self-loops included, and a
\* traversal is started or continued into each node at most once.
C28_DepthTerminates ==
    /\ [][Len(stack') > Len(stack) =>
              /\ stack'[Len(stack')].node_id \notin visited
              /\ stack'[Len(stack')].node_id \in visited']_vars
    /\ <>(tpc \in {"done", "raised"})

\* the depth was returned for relationships that form a cycle over two
\* nodes, next to a self-loop
C28_Witness ==
    /\ tpc = "done"
    /\ ~Acyclic
    /\ \E a, b \in Range(tnodes) :
          a # b /\ <<a, b>> \in HierEdges /\ <<b, a>> \in HierEdges
    /\ visited = Range(tnodes)

\* a hierarchical relationship joins a node of the list to a node outside it
OutsideEndpoint ==
    \E i \in 1..Len(HierRels) :
        (HierRels[i].start_node_id \in Range(tnodes))
            # (HierRels[i].end_node_id \in Range(tnodes))

\* C29: analyze_taxonomy returns its result without raising when a
\* hierarchical relationship that touches a node of the domain has its
\* other endpoint outside the domain's nodes (for example an incoming
\* relationship that starts in another domain).
C29_OutsideEndpointDoesNotRaise ==
    OutsideEndpoint => tpc # "raised"

\* ------------------------------------------------------------------------
\* Properties of the enum functions
\* ------------------------------------------------------------------------
\* C18: inverse(inverse(t)) = t for every relationship type t that has an
\* inverse (PART_OF and CONTAINS are each other's inverse, SIMILAR_TO and
\* RELATED_TO are their own), and IS_A has none.
C18_InverseInvolution ==
    fop = "inverse_relationship" =>
        /\ fout[1] \in RelationshipType \cup {None}
        /\ (finput.type = "IS_A" => fout[1] = None)
        /\ (finput.type = "PART_OF" => fout[1] = "CONTAINS")
        /\ (finput.type = "CONTAINS" => fout[1] = "PART_OF")
        /\ (finput.type \in {"SIMILAR_TO", "RELATED_TO"} => fout[1] = finput.type)
        /\ (fout[1] \in RelationshipType => fout[2] = finput.type)

\* the fuzzy rules of NodeLabelType.from_string in their order; a rule matches
\* when all the keywords of one of its alternatives occur in the text
LabelRules ==
    <<[variant |-> "EnergyTerm",
        alts |-> {{<<"e", "n", "e", "r", "g", "y">>}, {<<"t", "e", "r", "m">>}}],
      [variant |-> "RenewableSource",
        alts |-> {{<<"r", "e", "n", "e", "w">>}}],
      [variant |-> "FossilFuel",
        alts |-> {{<<"f", "o", "s", "s", "i", "l">>}}],
      [variant |-> "TechnicalConcept",
        alts |-> {{<<"t", "e", "c", "h">>}, {<<"c", "o", "n", "c", "e", "p", "t">>}}],
      [variant |-> "RegulatoryFramework",
        alts |-> {{<<"r", "e", "g", "u", "l">>}, {<<"f", "r", "a", "m", "e", "w", "o", "r", "k">>}, {<<"l", "a", "w">>}}],
      [variant |-> "TaxonomyNode",
        alts |-> {{<<"t", "a", "x", "o", "n", "o", "m", "y">>}}],
      [variant |-> "Concept",
        alts |-> {{<<"c", "o", "n", "c", "e", "p", "t">>}}],
      [variant |-> "Category",
        alts |-> {{<<"c", "a", "t", "e", "g", "o", "r", "y">>}}],
      [variant |-> "RelationshipNode",
        alts |-> {{<<"r", "e", "l", "a", "t", "i", "o", "n">>}}]>>

\* the fuzzy rules of RelationshipType.from_string in their order
RelationshipRules ==
    <<[variant |-> "IS_A",
        alts |-> {{<<"I", "S">>, <<"A">>}}],
      [variant |-> "PART_OF",
        alts |-> {{<<"P", "A", "R", "T">>}}],
      [variant |-> "CONTAINS",
        alts |-> {{<<"C", "O", "N", "T", "A", "I", "N">>}}],
      [variant |-> "SUBCLASS_OF",
        alts |-> {{<<"C", "L", "A", "S", "S">>}, {<<"S", "U", "B", "C", "L", "A", "S", "S">>}}],
      [variant |-> "RELATED_TO",
        alts |-> {{<<"R", "E", "L", "A", "T">>}}],
      [variant |-> "SIMILAR_TO",
        alts |-> {{<<"S", "I", "M", "I", "L", "A", "R">>}}],
      [variant |-> "OPPOSITE_OF",
        alts |-> {{<<"O", "P", "P", "O", "S", "I", "T", "E">>}, {<<"C", "O", "N", "T", "R", "A", "R", "Y">>}}],
      [variant |-> "PRODUCES",
        alts |-> {{<<"P", "R", "O", "D", "U", "C">>}}],
      [variant |-> "CONSUMES",
        alts |-> {{<<"C", "O", "N", "S", "U", "M">>}}],
      [variant |-> "USES",
        alts |-> {{<<"U", "S", "E">>}, {<<"U", "S", "E", "S">>}, {<<"U", "S", "I", "N", "G">>}}],
      [variant |-> "REGULATED_BY",
        alts |-> {{<<"R", "E", "G", "U", "L", "A", "T">>, <<"B", "Y">>}}],
      [variant |-> "REGULATES",
        alts |-> {{<<"R", "E", "G", "U", "L", "A", "T">>}}],
      [variant |-> "EXTRACTED_FROM",
        alts |-> {{<<"E", "X", "T", "R", "A", "C", "T">>}}],
      [variant |-> "LOCATED_IN",
        alts |-> {{<<"L", "O", "C", "A", "T">>}}],
      [variant |-> "DEPENDS_ON",
        alts |-> {{<<"D", "E", "P", "E", "N", "D">>}}],
      [variant |-> "IMPROVES",
        alts |-> {{<<"I", "M", "P", "R", "O", "V">>}}],
      [variant |-> "REPLACES",
        alts |-> {{<<"R", "E", "P", "L", "A", "C">>}}],
      [variant |-> "CONNECTS",
        alts |-> {{<<"C", "O", "N", "N", "E", "C", "T">>}}],
      [variant |-> "DEFINED_BY",
        alts |-> {{<<"D", "E", "F", "I", "N">>}}],
      [variant |-> "REFERENCES",
        alts |-> {{<<"R", "E", "F", "E", "R">>}}],
      [variant |-> "SUPERSEDES",
        alts |-> {{<<"S", "U", "P", "E", "R">>}}],
      [variant |-> "ENFORCED_BY",
        alts |-> {{<<"E", "N", "F", "O", "R", "C">>}}]>>

\* all the keywords of one of the rule's alternatives occur in the text
RuleMatches(rule, value) ==
    \E alt \in rule.alts : \A kw \in alt : Contains(value, kw)

\* what the claim says from_string returns for a normalized text: the variant
\* with that canonical value if there is one, else the variant of the first
\* rule that matches, else the default
ClaimedVariant(exact, rules, default, value) ==
    IF exact # {} THEN CHOOSE v \in exact : TRUE
    ELSE IF \E i \in 1..Len(rules) : RuleMatches(rules[i], value)
    THEN rules[CHOOSE i \in 1..Len(rules) :
                   /\ RuleMatches(rules[i], value)
                   /\ \A j \in 1..(i - 1) : ~RuleMatches(rules[j], value)].variant
    ELSE default

\* the text as NodeLabelType.from_string normalizes it
LabelText == StrStrip(StrLower(finput.text))

\* the text as RelationshipType.from_string normalizes it
TypeText == StrReplaceSpaces(StrStrip(StrUpper(finput.text)))

TransitionAttempted == last.op = "validate_node" /\ last.target # None

\* C1: a transition from status s to status t succeeds if and only if t is in
\* allowed_transitions(s).
C1_TransitionIffAllowed ==
    TransitionAttempted =>
        (last.committed <=> last.target \in allowed_transitions(last.from))

\* C6: a transition whose target is not in allowed_transitions(current) fails
\* with a state-transition error and leaves the status as it was.
C6_RefusedTransitionKeepsStatus ==
    (TransitionAttempted /\ last.target \notin allowed_transitions(last.from)) =>
        /\ last.raised = "StateTransitionError"
        /\ nodes[last.id].validation_status = last.from

\* C7: the new status is committed only when every field of
\* required_validation_fields(target) was supplied.
C7_RequiredFieldsBeforeCommit ==
    (TransitionAttempted /\ last.committed) =>
        required_validation_fields(last.target) \subseteq
            (last.supplied \cup DOMAIN nodes[last.id].properties)

C9_UpdateCompletesNode ==
    \A id \in DOMAIN nodes :
        ( /\ last.op = "update"
          /\ last.id = id
          /\ nodes[id].labels = <<"EnergyTerm">>
          /\ base_properties \subseteq DOMAIN nodes[id].properties
          /\ {"definition", "fuel_group"} \subseteq DOMAIN last.props )
        => ValidateResult(nodes[id])

\* C21: over any sequence of create_node, update_node and validate_node
\* calls, every change of a node's validation status goes from a status s to
\* a status in allowed_transitions(s), the change made by validate_node
\* included.
C21_StatusChangesFollowTable ==
    [][\A n \in DOMAIN nodes \cap DOMAIN nodes' :
          nodes'[n].validation_status # nodes[n].validation_status =>
              nodes'[n].validation_status
                  \in allowed_transitions(nodes[n].validation_status)]_vars

\* C24: for every node and every property map, update(properties) merges
\* the given keys into the node's properties (given keys take the new
\* values, the other keys are kept), sets updated_at to a time not earlier
\* than before, and leaves id, labels, created_at and validation status
\* unchanged.
C24_UpdateMergesAndKeepsTheRest ==
    [][(last'.op = "update" /\ last' # last) =>
         LET id == last'.id
         IN /\ DOMAIN nodes' = DOMAIN nodes
            /\ nodes'[id].properties = MapMerge(nodes[id].properties, last'.props)
            /\ nodes'[id].updated_at >= nodes[id].updated_at
            /\ nodes'[id].labels = nodes[id].labels
            /\ nodes'[id].created_at = nodes[id].created_at
            /\ nodes'[id].validation_status = nodes[id].validation_status]_vars

\* C26: in every state reached from create_node through update_node and
\* validate_node calls, a node whose validation status is a valid status has
\* no missing required property: the required properties of its labels are
\* all keys of its properties.
C26_ValidStatusMeansComplete ==
    \A id \in DOMAIN nodes :
        StatusIsValid(nodes[id].validation_status) =>
            ComputeRequired(nodes[id].labels) \subseteq DOMAIN nodes[id].properties

\* a node that validate_node marked VALIDATED was updated afterwards and
\* holds every required property of its label
C26_Witness ==
    \E id \in DOMAIN nodes :
        /\ nodes[id].validation_status = VALIDATED
        /\ last.op = "update_node"
        /\ last.id = id
        /\ last.raised = None
        /\ last.props # EmptyMap
        /\ nodes[id].updated_at > nodes[id].created_at
        /\ ComputeRequired(nodes[id].labels) \subseteq DOMAIN nodes[id].properties

SpecEnvelope == EnvelopeInit /\ [][EnvNext]_vars

\* ------------------------------------------------------------------------
\* Properties of the envelope
\* ------------------------------------------------------------------------
AllRaise(outs, n) == \A i \in 1..n : outs[i].kind = "raise"

GateFailed == validateCalls # <<>> /\ ~validateCalls[1]

\* C2: with retry_attempts = n, a function that raises on its first k
\* invocations and then returns is invoked exactly k+1 times (k <= n) and its
\* value is returned; when it keeps raising the call fails after exactly n+1
\* invocations.
C2_RetryBound ==
    /\ (epc = "returned" /\ ~fromCache) =>
          /\ Len(outcomes) >= 1
          /\ Len(outcomes) - 1 <= cfg.retry_attempts
          /\ AllRaise(outcomes, Len(outcomes) - 1)
          /\ outcomes[Len(outcomes)].kind = "return"
          /\ result = outcomes[Len(outcomes)].val
    /\ (epc = "raised" /\ ~GateFailed) =>
          /\ Len(outcomes) = cfg.retry_attempts + 1
          /\ AllRaise(outcomes, Len(outcomes))
    /\ (epc = "loop") =>
          /\ Len(outcomes) = attempt
          /\ AllRaise(outcomes, Len(outcomes))

\* raises twice, then "ok", with retry_attempts = 2: "ok" after 3 invocations
C2_Witness ==
    /\ cfg.retry_attempts = 2
    /\ epc = "returned"
    /\ Len(outcomes) = 3
    /\ AllRaise(outcomes, 2)
    /\ result = "ok"

\* C3: with result caching on, once a call with given arguments on an instance
\* has succeeded, every later call with the same arguments is answered with
\* that value and without invoking the function (no expiry); a call with
\* arguments that never succeeded is not answered from the cache.
C3_CacheNeverExpires ==
    [][\A a \in ArgTuples :
          (epc = "idle" /\ epc' # "idle" /\ args' = a /\ cfg.cache_result /\ HasInstance(a)) =>
              IF a \in DOMAIN computed
              THEN /\ epc' = "returned"
                   /\ fromCache'
                   /\ result' = computed[a]
                   /\ outcomes' = <<>>
              ELSE /\ ~fromCache'
                   /\ epc' # "returned"]_vars

\* a call answered from the cache while another argument tuple was computed too
C3_Witness ==
    /\ epc = "returned"
    /\ fromCache
    /\ outcomes = <<>>
    /\ Cardinality(DOMAIN computed) >= 2

\* C4: when the gate is on and validate() returns false the call fails at once
\* with the validation error: func is never invoked, nothing is retried and
\* no retry delay is taken, whatever retry_attempts is.
C4_GateFailureIsImmediate ==
    GateFailed =>
        /\ epc = "raised"
        /\ error = "ValueError"
        /\ outcomes = <<>>
        /\ sleeps = 0
        /\ attempt = 0

C4_Witness ==
    /\ GateFailed
    /\ cfg.retry_attempts >= 1
    /\ epc = "raised"

\* C5: a successful call hands back exactly what func returned, and a call
\* whose attempts all raised hands back the exception of the last attempt.
C5_ExactPropagation ==
    /\ (epc = "returned" /\ ~fromCache) =>
          /\ outcomes # <<>>
          /\ outcomes[Len(outcomes)] = [kind |-> "return", val |-> result]
    /\ (epc = "returned" /\ fromCache) => result = computed[args]
    /\ (epc = "raised" /\ outcomes # <<>>) =>
          /\ outcomes[Len(outcomes)] = [kind |-> "raise", val |-> error]
          /\ error \in Errors

\* all attempts raised and the first exception differs from the one propagated
C5_Witness ==
    /\ epc = "raised"
    /\ Len(outcomes) = cfg.retry_attempts + 1
    /\ Len(outcomes) >= 2
    /\ outcomes[1].val # error

\* C22: a call whose key is in the instance's cache returns the stored
\* result at once: validate() is not asked (so its answer cannot matter),
\* the wrapped operation is not invoked and nothing is retried.
C22_CacheHitBypassesGate ==
    [][\A a \in ArgTuples :
          ( /\ epc = "idle" /\ epc' # "idle" /\ args' = a
            /\ cfg.cache_result /\ HasInstance(a)
            /\ CacheKey(a) \in DOMAIN opCache[Instance(a)] ) =>
              /\ epc' = "returned"
              /\ result' = opCache[Instance(a)][CacheKey(a)]
              /\ validateCalls' = <<>>
              /\ outcomes' = <<>>
              /\ attempt' = 0
              /\ sleeps' = 0
              /\ opCache' = opCache]_vars

\* a call answered from the cache on an instance whose validate() the gate
\* would have asked
C22_Witness ==
    /\ epc = "returned"
    /\ fromCache
    /\ cfg.requires_validation
    /\ hasValidate[Instance(args)]
    /\ validateCalls = <<>>
    /\ outcomes = <<>>

\* C27: a call that fails (the gate refused it, or every attempt raised)
\* stores nothing: the cache changes only in the step in which func
\* returns, and when a call has failed its key is not in the cache, so the
\* next call with the same arguments is not answered from the cache.
C27_FailedCallStoresNothing ==
    [][/\ (opCache' # opCache \/ hasCache' # hasCache) =>
              /\ epc = "loop"
              /\ epc' = "returned"
              /\ outcomes'[Len(outcomes')].kind = "return"
       /\ epc' = "raised" =>
              /\ opCache' = opCache
              /\ hasCache' = hasCache
              /\ ~(CacheHit(args))']_vars

\* with caching on, every attempt of a call on an instance raised (one
\* retry at least), while the instance's cache holds a value stored by an
\* earlier call with another argument
C27_Witness ==
    /\ epc = "raised"
    /\ cfg.cache_result
    /\ HasInstance(args)
    /\ Len(outcomes) >= 2
    /\ AllRaise(outcomes, Len(outcomes))
    /\ DOMAIN opCache[Instance(args)] # {}
    /\ CacheKey(args) \notin DOMAIN opCache[Instance(args)]

\* ------------------------------------------------------------------------
\* Properties of the pattern wrapper
\* ------------------------------------------------------------------------
\* C30: for one call of a function wrapped by fabric_pattern, func is
\* executed exactly once, whether there is no registry, the pattern is not
\* found, the post-processing succeeds, or func or the post-processing
\* raises.
C30_ExecutedExactlyOnce ==
    fabpc \in {"returned", "raised"} => Len(fabcalls) = 1

====
